---- MODULE Spec2Model ----
(***************************************************************************)
(* TelegramServer (update store, notifier, eviction daemon) and the        *)
(* TelegramClient long-poll loop of telegram-test-api, as a state machine. *)
(* Time is a discrete clock `now`; one tick stands for an arbitrary span   *)
(* of milliseconds, and a timer is due when the clock reaches its tick.    *)
(***************************************************************************)
EXTENDS Integers, Sequences, FiniteSets, Bags, TLC

\* ---------------------------------------------------------------- bounds
\* Appends are enabled while updateId <= MaxAppends.
MaxAppends == 3
\* config.storeTimeout, in ticks (the TTL and the sweep period).
StoreTimeout == 2
\* The clock stops after the tick StoreTimeout + 2 (a sweep at T + e, e = 2).
MaxTime == StoreTimeout + 2
\* Number of waitBotMessage / waitUserMessage calls in one behaviour.
MaxWaits == 2
\* Start is enabled while fewer than MaxChains daemon timers are pending.
MaxChains == 2
\* this.timeout and this.interval of the client, in ticks.
ClientTimeout == 5
ClientInterval == 3
\* Appends during a long poll are enabled while updateId <= MaxPollAppends.
MaxPollAppends == 2
\* The clock of a long poll stops one retry after the deadline.
MaxPollTime == ClientTimeout + ClientInterval + 1

\* ---------------------------------------------------------------- values
NoToken == "undefined"      \* a payload without botToken (falsy for assert.ok)
NoChat == 0                 \* a payload without chat: message.chat is undefined
Undefined == -1             \* what ramda.prop gives for a property that is absent
Tokens == {"A", "B"}
ChatIds == {1, 2}
Dates == {1, 2}
ClientToken == "A"          \* this.botToken of the client

BotChannel == "AddedBotMessage"
UserChannel == "AddedUserMessage"

VARIABLES
    updateId,       \* this.updateId
    messageId,      \* this.messageId
    userMessages,   \* this.storage.userMessages
    botMessages,    \* this.storage.botMessages
    started,        \* this.started
    server,         \* this.server: "undefined", "starting", "listening", "shuttingDown",
                    \* "closed" (shutdown callback ran), "stopped" (stop() resolved)
    sweepsSinceStop, \* history: daemon sweeps since stop() was last called on a running
                    \* server; Undefined when no stop() was called since the last listen
    daemonTimers,   \* bag of the due times of pending Promise.delay(storeTimeout) of cleanUpDaemon
    now,            \* new Date().getTime(), in ticks
    waits,          \* the promises handed out by waitBotMessage / waitUserMessage, with their listener
    issued,         \* history: <<updateId, messageId, channel>> of every record ever created, in order
    ret,            \* the last call and what it returned or threw
    pollCalls,      \* the promises of the client's getUpdates() calls, outermost first
    pollPc,         \* where the client's retry chain is: "idle", "request", "delay", "done"
    pollDelayDue    \* due time of the pending Promise.delay(interval) of the chain

storeVars == <<updateId, messageId, userMessages, botMessages>>
lifeVars == <<started, server, daemonTimers, sweepsSinceStop>>
pollVars == <<pollCalls, pollPc, pollDelayDue>>
vars == <<updateId, messageId, userMessages, botMessages, started, server,
          sweepsSinceStop, daemonTimers, now, waits, issued, ret, pollCalls, pollPc, pollDelayDue>>

\* A message payload: the fields of it the server reads.
Message(botToken, chat, date) == [botToken |-> botToken, chat |-> chat, date |-> date]

Init ==
    /\ updateId = 1
    /\ messageId = 1
    /\ userMessages = <<>>
    /\ botMessages = <<>>
    /\ started = FALSE
    /\ server = "undefined"
    /\ sweepsSinceStop = Undefined
    /\ daemonTimers = EmptyBag
    /\ now = 0
    /\ waits = <<>>
    /\ issued = <<>>
    /\ ret = [op |-> "constructor", arg |-> <<>>, result |-> "none"]
    /\ pollCalls = <<>>
    /\ pollPc = "idle"
    /\ pollDelayDue = 0

\* ------------------------------------------------------------- notifier
\* emit(channel): every listener registered on the channel is called, in
\* registration order; each calls resolve() of its promise.  A listener stays
\* registered (this.on), and resolve() of a settled promise changes nothing.
emitOne(channel) ==
    LET pending == {i \in DOMAIN waits : waits[i].channel = channel /\ ~waits[i].resolved}
        first == IF pending = {} THEN 0 ELSE CHOOSE i \in pending : \A j \in pending : i <= j
    IN  [i \in DOMAIN waits |->
            IF i = first THEN [waits[i] EXCEPT !.resolved = TRUE, !.calls = @ + 1]
            ELSE waits[i]]

emit(channel) ==
    [i \in DOMAIN waits |->
        IF waits[i].channel = channel
        THEN [waits[i] EXCEPT !.resolved = TRUE, !.calls = @ + 1]
        ELSE waits[i]]

\* new Promise(resolve => this.on(channel, () => resolve())), returned by the
\* method `kind` ("bot" for waitBotMessage, "user" for waitUserMessage).
waitMessage(kind, channel) ==
    /\ Len(waits) < MaxWaits
    /\ waits' = Append(waits, [kind |-> kind, channel |-> channel, resolved |-> FALSE,
                               calls |-> 0, issuedAt |-> Len(issued)])
    /\ ret' = [op |-> "wait", arg |-> <<kind>>, result |-> "promise"]
    /\ UNCHANGED <<storeVars, lifeVars, now, issued, pollVars>>

waitBotMessage == waitMessage("bot", BotChannel)

waitUserMessageOnBotChannel == waitMessage("user", BotChannel)

waitUserMessage == waitMessage("user", UserChannel)

\* ------------------------------------------------------------- appends
SameId(id) == id

NextId(id) == id + 1

unshift(array, element) == <<element>> \o array

\* Array.prototype.push
push(array, element) == Append(array, element)

NewRecord(message, botToken) ==
    [time |-> now, botToken |-> botToken, message |-> message,
     updateId |-> updateId, messageId |-> messageId, isRead |-> FALSE]

\* What a listener called by this.emit finds in the server.
Server == [userMessages |-> userMessages, botMessages |-> botMessages,
           updateId |-> updateId, messageId |-> messageId]

atEmitBeforeCounters(before, after) ==
    [after EXCEPT !.updateId = before.updateId, !.messageId = before.messageId]

\* this.emit(...) is the last statement of an append: the listeners run on the
\* server as the push and the two increments before it left it.
atEmit(before, after) == after

addBotMessage(message, botToken) ==
    /\ updateId <= MaxAppends
    /\ botMessages' = push(botMessages, NewRecord(message, botToken))
    /\ messageId' = NextId(messageId)
    /\ updateId' = NextId(updateId)
    /\ waits' = emit(BotChannel)
    /\ issued' = Append(issued, <<updateId, messageId, "bot">>)
    /\ UNCHANGED <<userMessages, lifeVars, now, pollVars>>
    /\ ret' = [op |-> "addBotMessage", arg |-> <<message, botToken>>, result |-> "undefined",
               seen |-> atEmit(Server, Server')]

AnyMessage(message) == TRUE

\* assert.ok(message.botToken, ...)
HasBotToken(message) == message.botToken # NoToken

addUserMessage(message) ==
    /\ updateId <= MaxAppends
    /\ UNCHANGED <<botMessages, lifeVars, now, pollVars>>
    /\ IF HasBotToken(message)
       THEN /\ userMessages' = push(userMessages, NewRecord(message, message.botToken))
            /\ messageId' = NextId(messageId)
            /\ updateId' = NextId(updateId)
            /\ waits' = emit(UserChannel)
            /\ issued' = Append(issued, <<updateId, messageId, "user">>)
            /\ ret' = [op |-> "addUserMessage", arg |-> <<message>>, result |-> "undefined",
                       seen |-> atEmit(Server, Server')]
       ELSE /\ ret' = [op |-> "addUserMessage", arg |-> <<message>>, result |-> "AssertionError"]
            /\ UNCHANGED <<userMessages, messageId, updateId, waits, issued>>

\* ------------------------------------------------------------- eviction
messageFilterInclusive(message) == message.time >= now - StoreTimeout

messageFilter(message) == message.time > now - StoreTimeout

cleanUpUserOnly ==
    /\ userMessages' = SelectSeq(userMessages, messageFilter)
    /\ botMessages' = botMessages

cleanUp ==
    /\ userMessages' = SelectSeq(userMessages, messageFilter)
    /\ botMessages' = SelectSeq(botMessages, messageFilter)

\* A direct call of the public method cleanUp(); arg holds the time of the sweep
\* and the four log lengths it writes to the debug log (user before and after,
\* bot before and after).
CleanUp ==
    /\ cleanUp
    /\ ret' = [op |-> "cleanUp",
               arg |-> <<now, Len(userMessages), Len(userMessages'),
                         Len(botMessages), Len(botMessages')>>,
               result |-> "undefined"]
    /\ UNCHANGED <<updateId, messageId, lifeVars, now, waits, issued, pollVars>>

\* ------------------------------------------------------------- reset
closeAndRestartIds ==
    /\ userMessages' = <<>>
    /\ botMessages' = <<>>
    /\ updateId' = 1
    /\ messageId' = 1

\* close() replaces this.storage and touches nothing else of the store.
close ==
    /\ userMessages' = <<>>
    /\ botMessages' = <<>>
    /\ UNCHANGED <<updateId, messageId>>

Close ==
    /\ close
    /\ ret' = [op |-> "close", arg |-> <<>>, result |-> "undefined"]
    /\ UNCHANGED <<lifeVars, now, waits, issued, pollVars>>

\* ------------------------------------------------------------- deletion
removeUserMessage(id) == SelectSeq(userMessages, LAMBDA update : update.updateId # id)

removeBotMessage(id) == SelectSeq(botMessages, LAMBDA update : update.updateId # id)

\* update.message.chat.id === chatId && update.messageId === messageId, where
\* reading .id of an absent chat throws a TypeError.
isMessageToDelete(update, chatId, msgId) ==
    IF update.message.chat = NoChat THEN "TypeError"
    ELSE IF update.message.chat = chatId /\ update.messageId = msgId THEN "true"
    ELSE "false"

\* Array.prototype.find with isMessageToDelete: the index of the first match,
\* 0 when there is none, Threw when the predicate throws on the way.
Threw == 0 - 1

RECURSIVE findFrom(_, _, _, _)
findFrom(log, i, chatId, msgId) ==
    IF i > Len(log) THEN 0
    ELSE LET hit == isMessageToDelete(log[i], chatId, msgId)
         IN  IF hit = "TypeError" THEN Threw
             ELSE IF hit = "true" THEN i
             ELSE findFrom(log, i + 1, chatId, msgId)

find(log, chatId, msgId) == findFrom(log, 1, chatId, msgId)

deleteMessageBotFirst(chatId, msgId) ==
    LET userUpdate == find(userMessages, chatId, msgId)
        botUpdate == find(botMessages, chatId, msgId)
        same(result) == [result |-> result, userMessages |-> userMessages,
                         botMessages |-> botMessages]
    IN  IF botUpdate = Threw THEN same("TypeError")
        ELSE IF botUpdate > 0
        THEN [result |-> "true",
              userMessages |-> userMessages,
              botMessages |-> removeBotMessage(botMessages[botUpdate].updateId)]
        ELSE IF userUpdate = Threw THEN same("TypeError")
        ELSE IF userUpdate > 0
        THEN [result |-> "true",
              userMessages |-> removeUserMessage(userMessages[userUpdate].updateId),
              botMessages |-> botMessages]
        ELSE same("false")

\* What deleteMessage(chatId, messageId) returns or throws, and the two logs
\* after it.
deleteMessage(chatId, msgId) ==
    LET userUpdate == find(userMessages, chatId, msgId)
        botUpdate == find(botMessages, chatId, msgId)
        same(result) == [result |-> result, userMessages |-> userMessages,
                         botMessages |-> botMessages]
    IN  IF userUpdate = Threw THEN same("TypeError")
        ELSE IF userUpdate > 0
        THEN [result |-> "true",
              userMessages |-> removeUserMessage(userMessages[userUpdate].updateId),
              botMessages |-> botMessages]
        ELSE IF botUpdate = Threw THEN same("TypeError")
        ELSE IF botUpdate > 0
        THEN [result |-> "true",
              userMessages |-> userMessages,
              botMessages |-> removeBotMessage(botMessages[botUpdate].updateId)]
        ELSE same("false")

DeleteMessageCall(chatId, msgId) ==
    LET out == deleteMessage(chatId, msgId)
    IN  /\ userMessages' = out.userMessages
        /\ botMessages' = out.botMessages
        /\ ret' = [op |-> "deleteMessage", arg |-> <<chatId, msgId>>, result |-> out.result]
        /\ UNCHANGED <<updateId, messageId, lifeVars, now, waits, issued, pollVars>>

\* ------------------------------------------------------------- history
\* ramda.prop(name)(obj): the property, undefined when obj has none of that name.
prop(name, obj) == IF name \in DOMAIN obj THEN obj[name] ELSE Undefined

\* The comparator of ramda.sortBy, aa < bb ? -1 : aa > bb ? 1 : 0, says "less"
\* only for two defined keys: a comparison with undefined is false.
Less(aa, bb) == aa # Undefined /\ bb # Undefined /\ aa < bb

\* Array.prototype.sort is stable: x goes before the first element whose key
\* is greater than its own.  key maps each element to its sort key.
RECURSIVE insertSorted(_, _, _)
insertSorted(key, x, sorted) ==
    IF sorted = <<>> THEN <<x>>
    ELSE IF Less(key[x], key[Head(sorted)]) THEN <<x>> \o sorted
    ELSE <<Head(sorted)>> \o insertSorted(key, x, Tail(sorted))

RECURSIVE sortByFrom(_, _, _, _)
sortByFrom(key, list, i, sorted) ==
    IF i > Len(list) THEN sorted
    ELSE sortByFrom(key, list, i + 1, insertSorted(key, list[i], sorted))

sortBy(key, list) == sortByFrom(key, list, 1, <<>>)

getUpdateDate(update) == prop("date", update)

getUpdatesHistoryBotOnly(token) ==
    LET isOwnUpdate(update) == prop("botToken", update) = token
        own == SelectSeq(botMessages, isOwnUpdate)
    IN  sortBy([update \in {own[i] : i \in DOMAIN own} |-> getUpdateDate(update)], own)

\* compose(sortBy(getUpdateDate), filter(isOwnUpdate), concat)(botMessages, userMessages)
getUpdatesHistory(token) ==
    LET isOwnUpdate(update) == prop("botToken", update) = token
        own == SelectSeq(botMessages \o userMessages, isOwnUpdate)
    IN  sortBy([update \in {own[i] : i \in DOMAIN own} |-> getUpdateDate(update)], own)

GetUpdatesHistoryCall(token) ==
    /\ ret' = [op |-> "getUpdatesHistory", arg |-> <<token>>,
               result |-> getUpdatesHistory(token)]
    /\ UNCHANGED <<storeVars, lifeVars, now, waits, issued, pollVars>>

\* ------------------------------------------------------------- lifecycle
alwaysStarted(flag) == TRUE

\* if (this.started)
isStarted(flag) == flag

\* cleanUpDaemon(): when started, sweep and reschedule itself after storeTimeout.
cleanUpDaemon ==
    IF isStarted(started')
    THEN /\ cleanUp
         /\ daemonTimers' = daemonTimers (+) SetToBag({now + StoreTimeout})
    ELSE UNCHANGED <<userMessages, botMessages, daemonTimers>>

\* start(): http.createServer(app) and listen.  A second listen on the port of a
\* server that is still open fails, so start is taken from a closed server only.
Start ==
    /\ server \in {"undefined", "closed", "stopped"}
    /\ BagCardinality(daemonTimers) < MaxChains
    /\ server' = "starting"
    /\ ret' = [op |-> "start", arg |-> <<>>, result |-> "pending"]
    /\ UNCHANGED <<storeVars, started, daemonTimers, sweepsSinceStop, now, waits, issued, pollVars>>

\* The listen callback: started = true; cleanUpDaemon(); resolve().
Listening ==
    /\ server = "starting"
    /\ server' = "listening"
    /\ started' = TRUE
    /\ cleanUpDaemon
    /\ sweepsSinceStop' = Undefined
    /\ ret' = [op |-> "start", arg |-> <<>>, result |-> "resolved"]
    /\ UNCHANGED <<updateId, messageId, now, waits, issued, pollVars>>

\* stop(): resolves (after Promise.delay(50)) when this.server is undefined, else
\* asks the server to shut down; the callback comes when the connections are
\* closed.
Stop ==
    /\ server \in {"undefined", "listening"}
    /\ server' = IF server = "undefined" THEN server ELSE "shuttingDown"
    /\ sweepsSinceStop' = IF server = "undefined" THEN sweepsSinceStop ELSE 0
    /\ ret' = [op |-> "stop", arg |-> <<>>,
               result |-> IF server = "undefined" THEN "resolved" ELSE "pending"]
    /\ UNCHANGED <<storeVars, started, daemonTimers, now, waits, issued, pollVars>>

ShutdownDoneKeepingLogs ==
    /\ server = "shuttingDown"
    /\ server' = "closed"
    /\ started' = FALSE
    /\ ret' = [op |-> "stop", arg |-> <<>>, result |-> "shutdown"]
    /\ UNCHANGED <<storeVars, daemonTimers, sweepsSinceStop, now, waits, issued, pollVars>>

\* The shutdown callback: close(); started = false; resolve().
ShutdownDone ==
    /\ server = "shuttingDown"
    /\ server' = "closed"
    /\ close
    /\ started' = FALSE
    /\ ret' = [op |-> "stop", arg |-> <<>>, result |-> "shutdown"]
    /\ UNCHANGED <<daemonTimers, sweepsSinceStop, now, waits, issued, pollVars>>

\* .then(() => Promise.delay(50)) elapses: the promise of stop() resolves.
StopResolved ==
    /\ server = "closed"
    /\ server' = "stopped"
    /\ ret' = [op |-> "stop", arg |-> <<>>, result |-> "resolved"]
    /\ UNCHANGED <<storeVars, started, daemonTimers, sweepsSinceStop, now, waits, issued, pollVars>>

\* A pending Promise.delay(storeTimeout) of the daemon elapses: cleanUpDaemon().
DaemonFire ==
    \E t \in BagToSet(daemonTimers) :
        /\ t <= now
        /\ started' = started
        /\ IF isStarted(started)
           THEN /\ cleanUp
                /\ daemonTimers' = (daemonTimers (-) SetToBag({t})) (+) SetToBag({now + StoreTimeout})
                /\ sweepsSinceStop' = IF sweepsSinceStop = Undefined THEN Undefined
                                      ELSE sweepsSinceStop + 1
           ELSE /\ daemonTimers' = daemonTimers (-) SetToBag({t})
                /\ UNCHANGED <<userMessages, botMessages, sweepsSinceStop>>
        /\ ret' = [op |-> "cleanUpDaemon", arg |-> <<now>>,
                   result |-> IF isStarted(started) THEN "swept" ELSE "ended"]
        /\ UNCHANGED <<updateId, messageId, server, now, waits, issued, pollVars>>

\* ------------------------------------------------------------- long poll
\* The answer of POST /getUpdates {token}: the records of the bot log with that
\* botToken, as the log is when the server handles the request.
getUpdatesQuery(token) == SelectSeq(botMessages, LAMBDA update : update.botToken = token)

\* update.result !== undefined && update.result.length >= 1
hasSeveralUpdates(result) == Len(result) > 1

hasUpdates(result) == Len(result) >= 1

\* One getUpdates() call: requestPromise(options).then(...).timeout(this.timeout, ...).
\* Its timer is armed when the call is made.
newCall ==
    [state |-> "pending", calledAt |-> now, due |-> now + ClientTimeout,
     answeredAt |-> Undefined, settledAt |-> Undefined, value |-> <<>>]

\* The calls after a (first or recursive) getUpdates() call.
restartDeadlines(calls) ==
    Append([k \in DOMAIN calls |->
               IF calls[k].state = "pending" THEN [calls[k] EXCEPT !.due = now + ClientTimeout]
               ELSE calls[k]],
           newCall)

callGetUpdates(calls) == Append(calls, newCall)

\* The promise of call k-1 follows the promise of call k (the handler returns
\* it), so settling the innermost call settles every call that is still pending.
settle(calls, state, value) ==
    [k \in DOMAIN calls |->
        IF calls[k].state = "pending"
        THEN [calls[k] EXCEPT !.state = state, !.settledAt = now, !.value = value]
        ELSE calls[k]]

\* client.getUpdates(), called by the test.
GetUpdates ==
    /\ pollPc = "idle"
    /\ pollCalls' = callGetUpdates(pollCalls)
    /\ pollPc' = "request"
    /\ ret' = [op |-> "getUpdates", arg |-> <<ClientToken>>, result |-> "pending"]
    /\ UNCHANGED <<storeVars, lifeVars, now, waits, issued, pollDelayDue>>

\* The request is answered and the .then handler runs: a non-empty result
\* resolves the call, an empty one starts Promise.delay(this.interval).
GetUpdatesResponse ==
    /\ pollPc = "request"
    /\ LET result == getUpdatesQuery(ClientToken)
           answered == [pollCalls EXCEPT ![Len(pollCalls)].answeredAt = now]
       IN  IF hasUpdates(result)
           THEN /\ pollCalls' = settle(answered, "resolved", result)
                /\ pollPc' = "done"
                /\ pollDelayDue' = pollDelayDue
                /\ ret' = [op |-> "getUpdatesResponse", arg |-> <<result>>, result |-> "resolve"]
           ELSE /\ pollCalls' = answered
                /\ pollPc' = "delay"
                /\ pollDelayDue' = now + ClientInterval
                /\ ret' = [op |-> "getUpdatesResponse", arg |-> <<result>>, result |-> "retry"]
    /\ UNCHANGED <<storeVars, lifeVars, now, waits, issued>>

\* Promise.delay(this.interval) elapses: .then(() => this.getUpdates()).
GetUpdatesRetry ==
    /\ pollPc = "delay"
    /\ pollDelayDue <= now
    /\ pollCalls' = callGetUpdates(pollCalls)
    /\ pollPc' = "request"
    /\ ret' = [op |-> "getUpdatesRetry", arg |-> <<>>, result |-> "pending"]
    /\ UNCHANGED <<storeVars, lifeVars, now, waits, issued, pollDelayDue>>

\* The .timeout timer of call k fires while its promise is pending: the
\* promise is rejected with TimeoutError(`did not get new updates in ${timeout} ms`),
\* and so is every pending call that follows it.  The chain goes on.
GetUpdatesTimeout ==
    \E k \in DOMAIN pollCalls :
        /\ pollCalls[k].state = "pending"
        /\ pollCalls[k].due <= now
        /\ pollCalls' = [j \in DOMAIN pollCalls |->
                            IF j <= k /\ pollCalls[j].state = "pending"
                            THEN [pollCalls[j] EXCEPT !.state = "rejected", !.settledAt = now,
                                                      !.value = <<"TimeoutError", ClientTimeout>>]
                            ELSE pollCalls[j]]
        /\ ret' = [op |-> "getUpdatesTimeout", arg |-> <<k>>, result |-> "TimeoutError"]
        /\ UNCHANGED <<storeVars, lifeVars, now, waits, issued, pollPc, pollDelayDue>>

\* ------------------------------------------------------------- clock
\* A timer whose time has come runs before the clock moves on.
TimerDue ==
    \/ \E t \in BagToSet(daemonTimers) : t <= now
    \/ pollPc = "delay" /\ pollDelayDue <= now
    \/ \E k \in DOMAIN pollCalls : pollCalls[k].state = "pending" /\ pollCalls[k].due <= now

TickTo(limit) ==
    /\ now < limit
    /\ ~TimerDue
    /\ now' = now + 1
    /\ ret' = [op |-> "tick", arg |-> <<>>, result |-> "none"]
    /\ UNCHANGED <<storeVars, lifeVars, waits, issued, pollVars>>

Tick == TickTo(MaxTime)

PollTick == TickTo(MaxPollTime)

\* ------------------------------------------------------------- store machine
AddBotMessage == \E c \in {1} : addBotMessage(Message("A", c, 1), "A")

AddUserMessage == \E t \in {"A", NoToken} : addUserMessage(Message(t, 1, 1))

DeleteMessage == \E c \in {1}, m \in 1..MaxAppends : DeleteMessageCall(c, m)

\* Direct calls of the public methods removeUserMessage(updateId) and
\* removeBotMessage(updateId).
RemoveUserMessage ==
    \E id \in 1..MaxAppends :
        /\ userMessages' = removeUserMessage(id)
        /\ ret' = [op |-> "removeUserMessage", arg |-> <<id>>, result |-> "undefined"]
        /\ UNCHANGED <<updateId, messageId, botMessages, lifeVars, now, waits, issued, pollVars>>

RemoveBotMessage ==
    \E id \in 1..MaxAppends :
        /\ botMessages' = removeBotMessage(id)
        /\ ret' = [op |-> "removeBotMessage", arg |-> <<id>>, result |-> "undefined"]
        /\ UNCHANGED <<updateId, messageId, userMessages, lifeVars, now, waits, issued, pollVars>>

\* The store on its own: appends, deletion, removals, direct sweeps, reset, the
\* clock.
Next ==
    \/ AddBotMessage
    \/ AddUserMessage
    \/ DeleteMessage
    \/ RemoveUserMessage
    \/ RemoveBotMessage
    \/ CleanUp
    \/ Close
    \/ Tick

Spec == Init /\ [][Next]_vars

\* ------------------------------------------------------------- server machine
\* The server's life: start, stop, the eviction daemon, with appends and reset.
NextLife ==
    \/ AddBotMessage
    \/ AddUserMessage
    \/ Close
    \/ Start
    \/ Listening
    \/ Stop
    \/ ShutdownDone
    \/ StopResolved
    \/ DaemonFire
    \/ Tick

SpecLife == Init /\ [][NextLife]_vars

\* ------------------------------------------------------------- daemon machine
\* The running daemon over more than two periods of storeTimeout.
MaxDaemonTime == 2 * StoreTimeout + 1

DaemonTick == TickTo(MaxDaemonTime)

NextDaemon ==
    \/ AddBotMessage
    \/ AddUserMessage
    \/ Start
    \/ Listening
    \/ Stop
    \/ ShutdownDone
    \/ StopResolved
    \/ DaemonFire
    \/ DaemonTick

SpecDaemon == Init /\ [][NextDaemon]_vars

\* ------------------------------------------------------------- notifier machine
\* Waits and appends on the two channels.
NextWait ==
    \/ waitBotMessage
    \/ waitUserMessage
    \/ AddBotMessage
    \/ AddUserMessage

SpecWait == Init /\ [][NextWait]_vars

\* ------------------------------------------------------------- history machine
\* Appends with payload dates and bot tokens of the caller's choice, and the
\* history query.
AddDatedBotMessage == \E t \in Tokens, d \in Dates : addBotMessage(Message(t, 1, d), t)

AddDatedUserMessage == \E t \in Tokens, d \in Dates : addUserMessage(Message(t, 1, d))

GetUpdatesHistory == \E t \in Tokens : GetUpdatesHistoryCall(t)

NextHistory ==
    \/ AddDatedBotMessage
    \/ AddDatedUserMessage
    \/ GetUpdatesHistory

SpecHistory == Init /\ [][NextHistory]_vars

\* ------------------------------------------------------------- deletion machine
\* Appends with and without a chat in the payload, and deleteMessage.
AddChatBotMessage == \E c \in ChatIds \cup {NoChat} : addBotMessage(Message("A", c, 1), "A")

AddChatUserMessage == \E c \in ChatIds \cup {NoChat} : addUserMessage(Message("A", c, 1))

DeleteChatMessage == \E c \in ChatIds, m \in 1..MaxAppends : DeleteMessageCall(c, m)

NextDelete ==
    \/ AddChatBotMessage
    \/ AddChatUserMessage
    \/ DeleteChatMessage

SpecDelete == Init /\ [][NextDelete]_vars

\* ------------------------------------------------------------- client machine
\* One long poll of the client against a bot log that bots append to.
AddTokenBotMessage ==
    \E t \in Tokens : updateId <= MaxPollAppends /\ addBotMessage(Message(t, 1, 1), t)

NextPoll ==
    \/ GetUpdates
    \/ GetUpdatesResponse
    \/ GetUpdatesRetry
    \/ GetUpdatesTimeout
    \/ AddTokenBotMessage
    \/ PollTick

SpecPoll == Init /\ [][NextPoll]_vars

\* ------------------------------------------------------------- properties
Stored == {botMessages[i] : i \in DOMAIN botMessages} \cup
          {userMessages[i] : i \in DOMAIN userMessages}

Appended == ret.op \in {"addBotMessage", "addUserMessage"} /\ ret.result = "undefined"

\* C1: the updateId and the messageId of each record created are strictly
\* greater than every updateId and messageId issued before it, in either log,
\* whatever was deleted or evicted in between; so no two records ever created
\* share an updateId or a messageId.
IdsStrictlyIncreasing ==
    \A i, j \in DOMAIN issued :
        i < j => issued[i][1] < issued[j][1] /\ issued[i][2] < issued[j][2]

\* C1 witness: an append on each log has happened, the last call was an append,
\* and a record created earlier is no longer stored.
IdsIssuedAfterRemoval ==
    /\ Appended
    /\ Len(issued) = MaxAppends
    /\ {issued[i][3] : i \in DOMAIN issued} = {"bot", "user"}
    /\ Cardinality(Stored) < Len(issued) - 1

\* C2: addUserMessage with a payload without botToken throws, and changes
\* neither log, neither counter, and no waiter (no signal fired).
TokenlessUserMessageRejected ==
    [][(ret'.op = "addUserMessage" /\ ret'.arg[1].botToken = NoToken)
        => (ret'.result = "AssertionError" /\ UNCHANGED <<storeVars, waits, issued>>)]_vars

\* C2 witness: the call failed while a user waiter was pending and the user log
\* was not empty.
TokenlessRejectedWhileWaiting ==
    /\ ret.op = "addUserMessage"
    /\ ret.result = "AssertionError"
    /\ userMessages # <<>>
    /\ \E w \in DOMAIN waits : waits[w].kind = "user" /\ ~waits[w].resolved

\* C3: getUpdatesHistory(token) returns its records in ascending order of the
\* payload date (message.date), whatever the order of insertion.
HistorySortedByPayloadDate ==
    ret.op = "getUpdatesHistory" =>
        \A i, j \in DOMAIN ret.result :
            i < j => ret.result[i].message.date <= ret.result[j].message.date

RemoveAt(log, i) == SubSeq(log, 1, i - 1) \o SubSeq(log, i + 1, Len(log))

Outer == pollCalls[1]

Matching == getUpdatesQuery(ClientToken)

\* C5: the call is pending no longer than ClientTimeout after the initial call,
\* whatever the retries; when it is rejected, it is at that deadline and with
\* the TimeoutError that carries ClientTimeout; it resolves with a non-empty
\* result only, so never while the log holds nothing for the bot.
LongPollTimesOut ==
    pollCalls # <<>> =>
        /\ Outer.state = "pending" => now <= Outer.calledAt + ClientTimeout
        /\ Outer.state = "rejected" =>
              /\ Outer.value = <<"TimeoutError", ClientTimeout>>
              /\ Outer.settledAt = Outer.calledAt + ClientTimeout
        /\ Outer.state = "resolved" => Len(Outer.value) >= 1
        /\ Matching = <<>> => Outer.state # "resolved"

\* C5 witness: the log is still empty for the bot, the call was retried, and
\* it was rejected at its deadline.
LongPollTimedOutOnEmptyLog ==
    /\ pollCalls # <<>>
    /\ Matching = <<>>
    /\ Len(pollCalls) >= 2
    /\ Outer.state = "rejected"
    /\ now > Outer.due

\* Every request so far was answered in the tick it was sent in.
AnsweredAtOnce ==
    \A k \in DOMAIN pollCalls :
        IF k = Len(pollCalls) /\ pollPc = "request"
        THEN pollCalls[k].calledAt = now
        ELSE pollCalls[k].answeredAt = pollCalls[k].calledAt

\* C6 as stated: when a matching update became visible before the deadline
\* (even with every request answered at once), the settled call has completed
\* successfully, before the deadline.
UpdateBeforeDeadlineDelivered ==
    (/\ pollCalls # <<>>
     /\ AnsweredAtOnce
     /\ Outer.state # "pending"
     /\ \E i \in DOMAIN Matching : Matching[i].time < Outer.due)
        => (Outer.state = "resolved" /\ Outer.settledAt <= Outer.due)

\* C6 as amended: the first non-empty answer that arrives while the call is
\* pending resolves it, then and there, with that answer; a resolved call holds
\* a non-empty result of matching updates and settled by its deadline; and
\* each retry was made a full ClientInterval after the empty answer before it.
FirstNonEmptyAnswerReturned ==
    /\ [][(ret'.op = "getUpdatesResponse" /\ pollCalls # <<>> /\ Outer.state = "pending"
           /\ Len(Matching) >= 1)
            => /\ pollCalls'[1].state = "resolved"
               /\ pollCalls'[1].value = Matching
               /\ pollCalls'[1].settledAt = now
               /\ now <= Outer.due]_vars
    /\ [](pollCalls # <<>> /\ Outer.state = "resolved"
            => /\ Len(Outer.value) >= 1
               /\ \A i \in DOMAIN Outer.value : Outer.value[i].botToken = ClientToken
               /\ Outer.settledAt <= Outer.due)
    /\ [](\A k \in DOMAIN pollCalls :
            k > 1 => /\ pollCalls[k - 1].answeredAt # Undefined
                     /\ pollCalls[k].calledAt >= pollCalls[k - 1].answeredAt + ClientInterval)

\* C6 witness: the log was empty at the call, the call was retried, and a
\* retry found the update and resolved the call before the deadline.
LongPollResolvedOnRetry ==
    /\ pollCalls # <<>>
    /\ Len(pollCalls) >= 2
    /\ Outer.state = "resolved"
    /\ Outer.settledAt < Outer.due
    /\ \A i \in DOMAIN Outer.value : Outer.value[i].time > Outer.calledAt

\* C7: a wait is resolved exactly when an append on its own channel happened
\* after it was issued: earlier appends and appends on the other channel do not
\* resolve it, and without such an append it stays pending; once resolved it
\* stays resolved.
AppendedSince(w) ==
    \E k \in DOMAIN issued : k > waits[w].issuedAt /\ issued[k][3] = waits[w].kind

WaitResolvedByNextAppend ==
    /\ [](\A w \in DOMAIN waits : waits[w].resolved <=> AppendedSince(w))
    /\ [][\A w \in DOMAIN waits : waits[w].resolved => waits'[w].resolved]_vars

\* C7 witness: a wait issued after an earlier append is resolved, while a wait
\* on the other channel that has seen an append of the wrong kind is pending.
WaitResolvedOtherPending ==
    \E w, v \in DOMAIN waits :
        /\ waits[w].resolved /\ waits[w].issuedAt >= 1
        /\ issued[waits[w].issuedAt][3] = waits[w].kind
        /\ ~waits[v].resolved /\ waits[v].kind # waits[w].kind
        /\ waits[v].issuedAt < Len(issued)

\* C8: right after an append on a channel, no wait of that channel is pending,
\* however many there are.
AppendResolvesAllWaiters ==
    Appended =>
        \A w \in DOMAIN waits :
            waits[w].kind = issued[Len(issued)][3] => waits[w].resolved

\* C8 witness: MaxWaits waits of one channel, all pending before the last
\* append, all resolved by it.
AllWaitersResolvedAtOnce ==
    /\ Appended
    /\ Len(waits) = MaxWaits
    /\ \A w \in DOMAIN waits :
        /\ waits[w].kind = issued[Len(issued)][3]
        /\ waits[w].issuedAt = Len(issued) - 1
        /\ waits[w].resolved

\* C9: a sweep at time now keeps, in each log, exactly the records stored
\* after now - StoreTimeout, in their order, and drops the others.
Fresh(log) == SelectSeq(log, LAMBDA r : ~(r.time <= now - StoreTimeout))

SweepKeepsExactlyFresh ==
    [][ret'.op = "cleanUp"
        => /\ userMessages' = Fresh(userMessages)
           /\ botMessages' = Fresh(botMessages)
           /\ \A r \in Stored' : r.time + StoreTimeout > ret'.arg[1]]_vars

\* C9 witness: a sweep at StoreTimeout + 2 dropped the records stored at 0 from
\* both logs and kept a record stored at StoreTimeout + 1.
SweepDroppedOldKeptNew ==
    /\ ret.op = "cleanUp"
    /\ ret.arg[1] = StoreTimeout + 2
    /\ ret.arg[3] < ret.arg[2]
    /\ ret.arg[5] < ret.arg[4]
    /\ \E r \in Stored : r.time = StoreTimeout + 1

\* C10: close(), called directly or by the shutdown callback of stop(), empties
\* both logs and keeps both counters, and every append gets an updateId and a
\* messageId greater than all issued before, across resets and restarts.
ResetKeepsCounters ==
    /\ [][(ret'.op = "close" \/ (ret'.op = "stop" /\ server' = "closed" /\ server # "closed"))
            => /\ userMessages' = <<>> /\ botMessages' = <<>>
               /\ updateId' = updateId /\ messageId' = messageId]_vars
    /\ [][issued' # issued
            => \A k \in DOMAIN issued :
                  /\ issued[k][1] < issued'[Len(issued')][1]
                  /\ issued[k][2] < issued'[Len(issued')][2]]_vars

\* C10 witness: the first append after a full stop/start cycle.  Two daemon
\* timers are pending only after two listen callbacks, and start is taken from
\* a closed server only, so the shutdown callback ran in between.
AppendAfterRestart ==
    /\ Appended
    /\ server = "listening"
    /\ BagCardinality(daemonTimers) = 2
    /\ Len(issued) >= 2
    /\ Cardinality(Stored) = 1


\* The records of a log that deleteMessage(chatId, msgId) is asked to delete.
Matches(log, chatId, msgId) ==
    {i \in DOMAIN log : log[i].message.chat = chatId /\ log[i].messageId = msgId}

\* C11: deleteMessage never throws; it returns true exactly when a record of
\* either log matched, and then that one record is removed and all others are
\* kept in order; otherwise it returns false and both logs are unchanged.
DeleteMessageNeverFails ==
    [][ret'.op = "deleteMessage"
        => LET u == Matches(userMessages, ret'.arg[1], ret'.arg[2])
               b == Matches(botMessages, ret'.arg[1], ret'.arg[2])
           IN  /\ ret'.result \in {"true", "false"}
               /\ ret'.result = "true" <=> (u # {} \/ b # {})
               /\ ret'.result = "true"
                    => \/ \E i \in u : /\ userMessages' = RemoveAt(userMessages, i)
                                       /\ botMessages' = botMessages
                       \/ \E i \in b : /\ botMessages' = RemoveAt(botMessages, i)
                                       /\ userMessages' = userMessages
               /\ ret'.result = "false"
                    => UNCHANGED <<userMessages, botMessages>>]_vars


\* C12 as stated: counted from the call of stop(), no more than one sweep of
\* the daemon runs.
AtMostOneSweepAfterStop == sweepsSinceStop # Undefined => sweepsSinceStop <= 1

\* C12: once the shutdown callback has cleared the started flag, no sweep of the
\* daemon runs: the flag is clear whenever the server is closed, a daemon timer
\* that fires while the flag is clear leaves both logs alone and ends its chain,
\* and the sweeps counted since stop() grow only while the flag is set.
NoSweepOnceFlagCleared ==
    /\ [](server \in {"closed", "stopped"} => ~started)
    /\ [][(ret'.op = "cleanUpDaemon" /\ ~started)
            => /\ ret'.result = "ended"
               /\ UNCHANGED <<userMessages, botMessages, sweepsSinceStop>>
               /\ BagCardinality(daemonTimers') = BagCardinality(daemonTimers) - 1]_vars
    /\ [][(sweepsSinceStop # Undefined /\ sweepsSinceStop' > sweepsSinceStop)
            => started /\ ret'.op = "cleanUpDaemon"]_vars

DaemonEndedAfterStop ==
    /\ ret.op = "cleanUpDaemon"
    /\ ret.result = "ended"
    /\ server \in {"closed", "stopped"}
    /\ sweepsSinceStop = 1
    /\ daemonTimers = EmptyBag


\* C13: while the server is running a sweep of the daemon is pending within one
\* storeTimeout, every sweep of the daemon reschedules itself one storeTimeout
\* later, and no record stored more than 2 * storeTimeout ago is in either log.
RunningServerEvictsWithinTwoPeriods ==
    /\ [](started => \E t \in BagToSet(daemonTimers) : t <= now + StoreTimeout)
    /\ [](started => \A r \in Stored : now - r.time <= 2 * StoreTimeout)
    /\ [][(ret'.op = "cleanUpDaemon" /\ ret'.result = "swept")
            => /\ BagIn(now + StoreTimeout, daemonTimers')
               /\ \A r \in Stored' : now - r.time < StoreTimeout]_vars

\* A record that just missed a sweep is still stored when the next one is due.
RecordJustMissedSweep ==
    /\ started
    /\ \E r \in Stored : now - r.time = 2 * StoreTimeout - 1
    /\ \E t \in BagToSet(daemonTimers) : t = now


\* C14: getUpdatesHistory(token) returns each record of the two logs whose
\* botToken is token exactly once and nothing else (the empty sequence when
\* there is none), and leaves the logs, the counters and the waits unchanged.
HistoryIsExactlyOwnRecords ==
    [][ret'.op = "getUpdatesHistory"
        => LET result == ret'.result
               own == {r \in Stored : r.botToken = ret'.arg[1]}
           IN  /\ \A r \in own : Cardinality({i \in DOMAIN result : result[i] = r}) = 1
               /\ \A i \in DOMAIN result : result[i] \in own
               /\ Len(result) = Cardinality(own)
               /\ own = {} => result = <<>>
               /\ UNCHANGED <<storeVars, lifeVars, waits, issued>>]_vars

HistoryOfBothLogsReturned ==
    /\ ret.op = "getUpdatesHistory"
    /\ \E i \in DOMAIN ret.result : \E k \in DOMAIN userMessages : ret.result[i] = userMessages[k]
    /\ \E i \in DOMAIN ret.result : \E k \in DOMAIN botMessages : ret.result[i] = botMessages[k]
    /\ \E r \in Stored : r.botToken # ret.arg[1]

\* C15 as stated: whenever stop() completes, both logs are empty and the started
\* flag is clear.
StopLeavesStoreEmpty ==
    (ret.op = "stop" /\ ret.result = "resolved")
        => userMessages = <<>> /\ botMessages = <<>> /\ ~started

\* C15: the shutdown callback of stop() empties both logs and clears the started
\* flag; the promise resolves after a further delay that changes neither the
\* logs nor the flag, so it resolves with the flag clear; stop() of a server
\* that was never started resolves without changing the logs or the flag.
ShutdownCallbackEmptiesStore ==
    /\ [][(ret'.op = "stop" /\ ret'.result = "shutdown")
            => /\ server = "shuttingDown"
               /\ userMessages' = <<>> /\ botMessages' = <<>> /\ ~started']_vars
    /\ [][(ret'.op = "stop" /\ ret'.result = "resolved")
            => /\ UNCHANGED <<storeVars, started>>
               /\ server = "undefined" \/ ~started']_vars

StoreEmptiedByShutdown ==
    /\ ret.op = "stop"
    /\ ret.result = "shutdown"
    /\ now = 0
    /\ Len(issued) = MaxAppends
    /\ Stored = {}
    /\ ~started


\* C16: in every reachable state each log is in strictly increasing order of
\* updateId, and no updateId is in both logs.
LogsOrderedByUpdateId ==
    /\ \A i, j \in DOMAIN userMessages :
            i < j => userMessages[i].updateId < userMessages[j].updateId
    /\ \A i, j \in DOMAIN botMessages :
            i < j => botMessages[i].updateId < botMessages[j].updateId
    /\ \A i \in DOMAIN userMessages, j \in DOMAIN botMessages :
            userMessages[i].updateId # botMessages[j].updateId

\* A log holds the first and the last record appended after a removal by
\* updateId took out the one between them.
LogsOrderedAfterRemoval ==
    /\ ret.op \in {"removeUserMessage", "removeBotMessage"}
    /\ Len(issued) = MaxAppends
    /\ \E log \in {userMessages, botMessages} :
            /\ Len(log) = 2
            /\ log[1].updateId = 1
            /\ log[2].updateId = MaxAppends
    /\ Cardinality(Stored) = 2


\* C17: when the signal of an append fires, the new record is the last element
\* of its log and both counters are advanced past every identity issued; the
\* listeners are called with the logs as the append leaves them, so a waiter it
\* wakes finds the record, and an append made from a listener would take
\* identities that no record has.
AppendCompleteBeforeSignal ==
    [][Appended'
        => LET seen == ret'.seen
               log == IF ret'.op = "addBotMessage" THEN seen.botMessages ELSE seen.userMessages
           IN  /\ log # <<>>
               /\ log[Len(log)].updateId = updateId
               /\ log[Len(log)].messageId = messageId
               /\ log[Len(log)].message = ret'.arg[1]
               /\ seen.updateId = updateId + 1
               /\ seen.messageId = messageId + 1
               /\ \A k \in DOMAIN issued' :
                      issued'[k][1] < seen.updateId /\ issued'[k][2] < seen.messageId
               /\ seen.userMessages = userMessages'
               /\ seen.botMessages = botMessages'
               /\ \A w \in DOMAIN waits :
                      waits'[w].calls > waits[w].calls => waits'[w].channel =
                          IF ret'.op = "addBotMessage" THEN BotChannel ELSE UserChannel]_vars

\* A pending waiter was woken by an append that was not the first.
WaiterWokenSeesRecord ==
    /\ Appended
    /\ Len(issued) >= 2
    /\ ret.seen.updateId = updateId
    /\ \E w \in DOMAIN waits :
            /\ waits[w].resolved
            /\ waits[w].calls = 1
            /\ waits[w].issuedAt = Len(issued) - 1


\* C18: once the getUpdates() call of the test has settled, resolved or rejected
\* with the TimeoutError, the client sends no further query.
NoQueryAfterSettled ==
    (pollCalls # <<>> /\ Outer.state # "pending")
        => \A k \in DOMAIN pollCalls : pollCalls[k].calledAt <= Outer.settledAt


\* C19: at any time at most one chain of the eviction daemon is alive: at most
\* one Promise.delay of cleanUpDaemon is pending, whatever the sequence of
\* start() and stop().
AtMostOneDaemonChain == BagCardinality(daemonTimers) <= 1


\* EventEmitter.listenerCount(channel): every wait registered its listener with
\* this.on, and nothing in the server removes a listener.
listenerCount(channel) == Cardinality({w \in DOMAIN waits : waits[w].channel = channel})

\* C20: the listeners registered on a channel are as many as the waits on it
\* that are still pending: the listener of a resolved wait is registered no more.
ListenersArePendingWaits ==
    \A channel \in {BotChannel, UserChannel} :
        listenerCount(channel) =
            Cardinality({w \in DOMAIN waits : waits[w].channel = channel /\ ~waits[w].resolved})

====
